---- MODULE Spec2Model ----
(***************************************************************************)
(* Model of the Elixir tag parser of ctags (elixir.c).                     *)
(*                                                                         *)
(* A line is a sequence of one-character strings.  A cursor (the C         *)
(* pointer cp) is an index into the line; the index Len(line) + 1 is the   *)
(* terminating NUL.  A vString is the sequence of characters it holds.     *)
(* The tag sink (the tag file makeTagEntry writes to) is the sequence of   *)
(* the tag records forwarded so far.                                       *)
(***************************************************************************)
EXTENDS Integers, Sequences, FiniteSets, TLC

VARIABLES
    pc,          \* "idle": no scan is running; "scanning": inside findElixirTags
    nfiles,      \* number of calls of findElixirTags so far
    nread,       \* number of lines fileReadLine has returned so far
    line,        \* the line returned by the last fileReadLine
    enabled,     \* ElixirKinds[k].enabled, as set by the host's options
    module,      \* the vString module of findElixirTags
    tags,        \* the tag sink
    moduleAll,   \* module of the reference scan (same lines, all kinds enabled)
    tagsAll,     \* tag sink of the reference scan
    cp,          \* SpecId: the cursor handed to parseIdentifier
    identifier,  \* SpecId: the vString handed to parseIdentifier
    ret          \* SpecId: the cursor parseIdentifier returned (0: not called)

vars == <<pc, nfiles, nread, line, enabled, module, tags, moduleAll, tagsAll,
          cp, identifier, ret>>

(***************************************************************************)
(* Bounds of the model.                                                    *)
(***************************************************************************)
MaxFiles == 2
MaxLines == 2
MaxLen == 3

(***************************************************************************)
(* Characters.                                                             *)
(***************************************************************************)
NUL == ""

Lower ==
    {"a", "b", "c", "d", "e", "f", "g", "h", "i", "j", "k", "l", "m",
     "n", "o", "p", "q", "r", "s", "t", "u", "v", "w", "x", "y", "z"}

Upper ==
    {"A", "B", "C", "D", "E", "F", "G", "H", "I", "J", "K", "L", "M",
     "N", "O", "P", "Q", "R", "S", "T", "U", "V", "W", "X", "Y", "Z"}

Digit ==
    {"0", "1", "2", "3", "4", "5", "6", "7", "8", "9"}

isalpha(c) == c \in Lower \cup Upper

isalnum(c) == c \in Lower \cup Upper \cup Digit

isspace(c) == c \in {" ", "\t", "\n", "\r", "\f"}

\* *cp: the character under the cursor, NUL at the end of the line
CharAt(l, i) == IF i >= 1 /\ i <= Len(l) THEN l[i] ELSE NUL

(***************************************************************************)
(* Kinds.                                                                  *)
(***************************************************************************)
K_MACRO == 0
K_FUNCTION == 1
K_MODULE == 2
K_RECORD == 3

Kinds == {K_MACRO, K_FUNCTION, K_MODULE, K_RECORD}

\* the letter and name columns of ElixirKinds (the enabled column is the
\* variable enabled)
ElixirKinds ==
    [k \in Kinds |->
        CASE k = K_MACRO    -> [letter |-> "d", name |-> "macro"]
          [] k = K_FUNCTION -> [letter |-> "f", name |-> "function"]
          [] k = K_MODULE   -> [letter |-> "m", name |-> "module"]
          [] k = K_RECORD   -> [letter |-> "r", name |-> "record"]]

AllEnabled == [k \in Kinds |-> TRUE]

(***************************************************************************)
(* vString and tag entry primitives.                                       *)
(***************************************************************************)
vStringNew == <<>>

vStringClear(s) == <<>>

\* a NUL is stored as the terminator and does not add to the length
vStringPut(s, c) == IF c = NUL THEN s ELSE Append(s, c)

vStringLength(s) == Len(s)

\* scope [0] and scope [1] are NULL in a fresh entry: no scope
NoScope == <<>>

initTagEntry(name) ==
    [name |-> name, kindName |-> "", kind |-> "", scope |-> NoScope]

makeTagEntry(sink, tag) == Append(sink, tag)

makeSimpleTag(sink, name, kinds, kind) ==
    IF kinds[kind] /\ vStringLength(name) > 0
    THEN makeTagEntry(sink,
            [initTagEntry(name) EXCEPT !.kindName = ElixirKinds[kind].name,
                                       !.kind = ElixirKinds[kind].letter])
    ELSE sink

(***************************************************************************)
(* Lexical primitives.                                                     *)
(***************************************************************************)
isIdentifierFirstCharacter(c) == isalpha(c)

isIdentifierCharacter_noDot(c) == isalnum(c) \/ c = "_"

isIdentifierCharacter(c) == isalnum(c) \/ c = "_" \/ c = "."

RECURSIVE parseIdentifierLoop(_, _, _)
parseIdentifierLoop(l, i, buf) ==
    IF isIdentifierCharacter(CharAt(l, i))
    THEN parseIdentifierLoop(l, i + 1, vStringPut(buf, CharAt(l, i)))
    ELSE [cp |-> i, identifier |-> buf]

parseIdentifier_noClear(l, i, buf) == parseIdentifierLoop(l, i, buf)

\* puts the character under the cursor before testing it (do ... while)
parseIdentifier_doWhile(l, i, buf) ==
    IF CharAt(l, i) = NUL
    THEN [cp |-> i, identifier |-> <<>>]
    ELSE parseIdentifierLoop(l, i + 1, <<CharAt(l, i)>>)

parseIdentifier(l, i, buf) == parseIdentifierLoop(l, i, vStringClear(buf))

RECURSIVE skipWhitespace(_, _)
skipWhitespace(l, i) ==
    IF isspace(CharAt(l, i)) THEN skipWhitespace(l, i + 1) ELSE i

(***************************************************************************)
(* Tag emitters.                                                           *)
(***************************************************************************)
\* module = NULL is modelled by the empty vString, which takes the same branch
makeMemberTag(sink, name, kind, mod, kinds) ==
    IF kinds[kind] /\ vStringLength(name) > 0
    THEN LET tag == [initTagEntry(name) EXCEPT
                        !.kindName = ElixirKinds[kind].name,
                        !.kind = ElixirKinds[kind].letter]
         IN  IF vStringLength(mod) > 0
             THEN makeTagEntry(sink, [tag EXCEPT !.scope = <<"module", mod>>])
             ELSE makeTagEntry(sink, tag)
    ELSE sink

\* the results of the parse routines: the module vString and the tag sink
Out(mod, sink) == [module |-> mod, sink |-> sink]

parseModuleTag_noCopy(l, i, mod, sink, kinds) ==
    Out(mod,
        makeSimpleTag(sink, parseIdentifier(l, i, vStringNew).identifier,
                      kinds, K_MODULE))

parseModuleTag_copyIfNamed(l, i, mod, sink, kinds) ==
    LET id == parseIdentifier(l, i, vStringNew).identifier
    IN  Out(IF vStringLength(id) > 0 /\ kinds[K_MODULE] THEN id ELSE mod,
            makeSimpleTag(sink, id, kinds, K_MODULE))

parseModuleTag(l, i, mod, sink, kinds) ==
    LET id == parseIdentifier(l, i, vStringNew).identifier
    IN  Out(id, makeSimpleTag(sink, id, kinds, K_MODULE))

\* forwards the entry itself, without the checks of makeSimpleTag
parseSimpleTag_unchecked(l, i, kind, sink, kinds) ==
    makeTagEntry(sink,
        [initTagEntry(parseIdentifier(l, i, vStringNew).identifier) EXCEPT
            !.kindName = ElixirKinds[kind].name,
            !.kind = ElixirKinds[kind].letter])

parseSimpleTag(l, i, kind, sink, kinds) ==
    makeSimpleTag(sink, parseIdentifier(l, i, vStringNew).identifier,
                  kinds, kind)

parseFunctionTag(l, i, mod, sink, kinds) ==
    makeMemberTag(sink, parseIdentifier(l, i, vStringNew).identifier,
                  K_FUNCTION, mod, kinds)

(***************************************************************************)
(* Directive keywords and dispatch.                                        *)
(***************************************************************************)
kw_def == <<"d", "e", "f">>
kw_defp == <<"d", "e", "f", "p">>
kw_defmacro == <<"d", "e", "f", "m", "a", "c", "r", "o">>
kw_defmacrop == <<"d", "e", "f", "m", "a", "c", "r", "o", "p">>
kw_defrecord == <<"d", "e", "f", "r", "e", "c", "o", "r", "d">>
kw_defmodule == <<"d", "e", "f", "m", "o", "d", "u", "l", "e">>

\* strncmp (drtv, kw, strlen (kw)) == 0
HasPrefix(s, kw) == Len(s) >= Len(kw) /\ SubSeq(s, 1, Len(kw)) = kw

\* compares a prefix of the directive only, in independent if statements
parseDirective_prefix(l, i, mod, sink, kinds) ==
    LET d == parseIdentifier(l, i, vStringNew)
        drtv == d.identifier
        c == skipWhitespace(l, d.cp)
        s1 == IF HasPrefix(drtv, kw_def)
              THEN parseSimpleTag(l, c, K_FUNCTION, sink, kinds) ELSE sink
        s2 == IF HasPrefix(drtv, kw_defmacro)
              THEN parseSimpleTag(l, c, K_MACRO, s1, kinds) ELSE s1
        s3 == IF HasPrefix(drtv, kw_defrecord)
              THEN parseSimpleTag(l, c, K_RECORD, s2, kinds) ELSE s2
    IN  IF HasPrefix(drtv, kw_defmodule)
        THEN parseModuleTag(l, c, mod, s3, kinds)
        ELSE Out(mod, s3)

\* drtv is taken from the vString before the scan fills it (line 139) and is
\* read after it: it is the scanned text as long as the scan does not make the
\* vString reallocate its buffer.  The leading identifiers of the lines of the
\* model are shorter than the initial size of a vString.
parseDirective(l, i, mod, sink, kinds) ==
    LET d == parseIdentifier(l, i, vStringNew)
        drtv == d.identifier
        c == skipWhitespace(l, d.cp)
    IN  IF drtv = kw_def \/ drtv = kw_defp
        THEN Out(mod, parseSimpleTag(l, c, K_FUNCTION, sink, kinds))
        ELSE IF drtv = kw_defmacro
        THEN Out(mod, parseSimpleTag(l, c, K_MACRO, sink, kinds))
        ELSE IF drtv = kw_defrecord
        THEN Out(mod, parseSimpleTag(l, c, K_RECORD, sink, kinds))
        ELSE IF drtv = kw_defmodule
        THEN parseModuleTag(l, c, mod, sink, kinds)
        ELSE Out(mod, sink)

\* the body of the while loop of findElixirTags, for one line
scanLine(l, mod, sink, kinds) ==
    LET c == skipWhitespace(l, 1)
    IN  IF CharAt(l, c) = "#" THEN Out(mod, sink)
        ELSE IF CharAt(l, c) = "@" THEN Out(mod, sink)
        ELSE IF CharAt(l, c) = "d" THEN parseDirective(l, c, mod, sink, kinds)
        ELSE Out(mod, sink)

(***************************************************************************)
(* The lines the host feeds to the scanner.                                *)
(***************************************************************************)
Foo == <<"F", "o", "o">>
Bar == <<"B", "a", "r">>
FooBar == <<"F", "o", "o", ".", "B", "a", "r">>
bar == <<"b", "a", "r">>
baz == <<"b", "a", "z">>
foo == <<"f", "o", "o">>
Rec == <<"R", "e", "c">>
SP == <<" ">>

Names == {Foo, Bar, FooBar, bar, baz, foo, Rec}

L_defmodule_Foo == kw_defmodule \o SP \o Foo
L_defmodule_FooBar_do == SP \o SP \o kw_defmodule \o SP \o FooBar \o SP \o <<"d", "o">>
L_defmodule_Bar == kw_defmodule \o SP \o Bar
L_defmodule == kw_defmodule
L_defmodule_comma == kw_defmodule \o SP \o <<",">>
L_def_bar == kw_def \o SP \o bar
L_defp_bar_args == <<"\t">> \o kw_defp \o SP \o bar \o <<"(", "x", ")">>
L_def == kw_def
L_def_paren_bar == kw_def \o SP \o <<"(">> \o bar \o <<")">>
L_defmacro_baz == kw_defmacro \o SP \o baz
L_defmacrop_baz == kw_defmacrop \o SP \o baz
L_defmacro_bang == kw_defmacro \o <<"!">>
L_defrecord_Rec == kw_defrecord \o SP \o Rec
L_destroy_foo == <<"d", "e", "s", "t", "r", "o", "y">> \o SP \o foo
L_Def_foo == <<"D", "e", "f">> \o SP \o foo
L_defx_foo == <<"d", "e", "f", "x">> \o SP \o foo
L_comment == <<"#">> \o SP \o kw_def \o SP \o bar
L_at == SP \o <<"@">> \o kw_def \o SP \o bar
L_import_Foo == <<"i", "m", "p", "o", "r", "t">> \o SP \o Foo
L_def_dot_bar == kw_def \o <<".">> \o bar \o SP \o foo
L_blank == SP \o <<"\t">>
L_empty == <<>>

Lines ==
    {L_defmodule_Foo, L_defmodule_FooBar_do, L_defmodule_Bar, L_defmodule,
     L_defmodule_comma, L_def_bar, L_defp_bar_args, L_def, L_def_paren_bar,
     L_defmacro_baz, L_defmacrop_baz, L_defmacro_bang, L_defrecord_Rec,
     L_destroy_foo, L_Def_foo, L_defx_foo, L_comment, L_at, L_import_Foo,
     L_def_dot_bar, L_blank, L_empty}

(***************************************************************************)
(* The file-scan driver.                                                   *)
(***************************************************************************)
idVars == <<cp, identifier, ret>>

Init ==
    /\ pc = "idle"
    /\ nfiles = 0
    /\ nread = 0
    /\ line = <<>>
    /\ enabled \in [Kinds -> BOOLEAN]
    /\ module = <<>>
    /\ tags = <<>>
    /\ moduleAll = <<>>
    /\ tagsAll = <<>>
    /\ cp = 1
    /\ identifier = <<>>
    /\ ret = 0

\* the module vString lives across scans (a static) instead of being created
BeginFile_static ==
    /\ pc = "idle"
    /\ nfiles < MaxFiles
    /\ pc' = "scanning"
    /\ nfiles' = nfiles + 1
    /\ UNCHANGED <<nread, line, enabled, module, tags, moduleAll, tagsAll>>
    /\ UNCHANGED idVars

\* findElixirTags is called for a file: module = vStringNew ()
BeginFile ==
    /\ pc = "idle"
    /\ nfiles < MaxFiles
    /\ pc' = "scanning"
    /\ nfiles' = nfiles + 1
    /\ module' = vStringNew
    /\ moduleAll' = vStringNew
    /\ UNCHANGED <<nread, line, enabled, tags, tagsAll>>
    /\ UNCHANGED idVars

\* fileReadLine returns the line l: one iteration of the while loop
ReadLine(l) ==
    /\ pc = "scanning"
    /\ nread < MaxLines
    /\ nread' = nread + 1
    /\ line' = l
    /\ LET r == scanLine(l, module, tags, enabled)
           a == scanLine(l, moduleAll, tagsAll, AllEnabled)
       IN  /\ module' = r.module
           /\ tags' = r.sink
           /\ moduleAll' = a.module
           /\ tagsAll' = a.sink
    /\ UNCHANGED <<pc, nfiles, enabled>>
    /\ UNCHANGED idVars

\* fileReadLine returns NULL: vStringDelete (module) and return.  The variable
\* keeps the last contents; nothing reads it until the next vStringNew.
EndFile ==
    /\ pc = "scanning"
    /\ pc' = "idle"
    /\ UNCHANGED <<nfiles, nread, line, enabled, module, tags, moduleAll, tagsAll>>
    /\ UNCHANGED idVars

Next ==
    \/ BeginFile
    \/ \E l \in Lines : ReadLine(l)
    \/ EndFile

Spec == Init /\ [][Next]_vars

(***************************************************************************)
(* parseIdentifier on its own: every line over IdAlphabet of length at    *)
(* most MaxLen, every cursor position in it, a clean or a used vString.   *)
(***************************************************************************)
IdAlphabet == {"F", "o", ".", "_", "7", " ", "("}

IdLines ==
    UNION {[1..n -> IdAlphabet] : n \in 0..MaxLen}
        \cup {FooBar, L_defmodule_FooBar_do, L_defp_bar_args}

scanVars == <<pc, nfiles, nread, enabled, module, tags, moduleAll, tagsAll>>

InitId ==
    /\ pc = "idle"
    /\ nfiles = 0
    /\ nread = 0
    /\ enabled = AllEnabled
    /\ module = <<>>
    /\ tags = <<>>
    /\ moduleAll = <<>>
    /\ tagsAll = <<>>
    /\ line \in IdLines
    /\ cp \in 1..(Len(line) + 1)
    /\ identifier \in {<<>>, <<"x", "y">>}
    /\ ret = 0

\* cp = parseIdentifier (cp, identifier), the returned cursor kept in ret
CallParseIdentifier ==
    /\ ret = 0
    /\ LET r == parseIdentifier(line, cp, identifier)
       IN  /\ ret' = r.cp
           /\ identifier' = r.identifier
    /\ UNCHANGED <<line, cp>>
    /\ UNCHANGED scanVars

\* skipWhitespace (&cp) on the returned cursor, as parseDirective does before
\* it scans the next identifier
CallSkipWhitespace ==
    /\ ret # 0
    /\ cp' = skipWhitespace(line, ret)
    /\ ret' = 0
    /\ UNCHANGED <<line, identifier>>
    /\ UNCHANGED scanVars

NextId ==
    \/ CallParseIdentifier
    \/ CallSkipWhitespace

SpecId == InitId /\ [][NextId]_vars

(***************************************************************************)
(* Vocabulary of the properties.  The shape of a line is stated here by    *)
(* positions in the line, independently of the scanner.                    *)
(***************************************************************************)
\* an identifier character: alphanumeric, underscore or dot
IdentChar(c) == c \in Lower \cup Upper \cup Digit \cup {"_", "."}

\* after leading whitespace the line holds the word w, and w ends there
LeadingWord(l, w) ==
    \E a \in 0..(Len(l) - Len(w)) :
        /\ SubSeq(l, a + 1, a + Len(w)) = w
        /\ \A i \in 1..a : isspace(l[i])
        /\ ~IdentChar(CharAt(l, a + Len(w) + 1))

\* the line is: whitespace, the keyword kw, whitespace, the identifier n (the
\* maximal run of identifier characters there, empty when none follows)
LineForm(l, kw, n) ==
    \E a \in 0..(Len(l) - Len(kw)) :
        /\ SubSeq(l, a + 1, a + Len(kw)) = kw
        /\ \A i \in 1..a : isspace(l[i])
        /\ ~IdentChar(CharAt(l, a + Len(kw) + 1))
        /\ \E b \in (a + Len(kw))..(Len(l) - Len(n)) :
            /\ SubSeq(l, b + 1, b + Len(n)) = n
            /\ \A i \in (a + Len(kw) + 1)..b : isspace(l[i])
            /\ ~isspace(CharAt(l, b + 1))
            /\ ~IdentChar(CharAt(l, b + Len(n) + 1))

Tag(n, kindName, letter, scope) ==
    [name |-> n, kindName |-> kindName, kind |-> letter, scope |-> scope]

\* the step processes one line, line'
LineStep == nread' = nread + 1

\* C1: every tag in the sink has a non-empty name, and a line whose keyword
\* (def, defp, defmacro, defrecord, defmodule) is followed, after optional
\* whitespace, by the end of the line or by a character that is not an
\* identifier character emits no tag.
C1_NonEmptyName ==
    [][/\ \A i \in 1..Len(tags') : Len(tags'[i].name) > 0
       /\ (LineStep /\ \E kw \in {kw_def, kw_defp, kw_defmacro, kw_defrecord,
                                  kw_defmodule} : LineForm(line', kw, <<>>))
            => tags' = tags]_vars

C1_Witness ==
    /\ nread = 2
    /\ line = L_def_paren_bar
    /\ enabled = AllEnabled
    /\ tags = <<Tag(bar, "function", "f", NoScope)>>

\* C2: a line `defmodule Foo` (kind module enabled) emits exactly one tag,
\* Foo, kind module, no scope, and sets the module state to Foo; the module
\* state then stays over the following lines of the file that are no
\* defmodule line.
C2_ModuleLine ==
    [][LineStep =>
        /\ enabled[K_MODULE] =>
             \A n \in Names : LineForm(line', kw_defmodule, n) =>
                /\ tags' = Append(tags, Tag(n, "module", "m", NoScope))
                /\ module' = n
        /\ ~LeadingWord(line', kw_defmodule) => module' = module]_vars

C2_Witness ==
    /\ pc = "scanning"
    /\ nfiles = 1
    /\ nread = 2
    /\ line = L_Def_foo
    /\ module = Foo
    /\ tags = <<Tag(Foo, "module", "m", NoScope)>>

\* C3: a line `def bar` or `defp bar` read after a `defmodule Foo` line of the
\* same file (kind function enabled) emits exactly one tag, bar, kind function,
\* with the scope ("module", Foo).
C3_ScopedFunction ==
    [][(LineStep /\ enabled[K_FUNCTION] /\ module \in Names) =>
        \A n \in Names : \A kw \in {kw_def, kw_defp} :
            LineForm(line', kw, n) =>
                tags' = Append(tags,
                               Tag(n, "function", "f", <<"module", module>>))]_vars

\* C4: a line `defmacro baz` or `defmacrop baz` (kind macro enabled) emits
\* exactly one tag, baz, kind macro, no scope, whatever the module state, and
\* leaves the module state unchanged.
C4_MacroLine ==
    [][(LineStep /\ enabled[K_MACRO]) =>
        \A n \in Names : \A kw \in {kw_defmacro, kw_defmacrop} :
            LineForm(line', kw, n) =>
                /\ tags' = Append(tags, Tag(n, "macro", "d", NoScope))
                /\ module' = module]_vars

\* C5: a line that is no recognized directive (it starts, after whitespace,
\* with #, @ or anything but d, or its leading identifier is none of the
\* keywords) emits no tag and leaves the module state unchanged.
C5_NoOpLine ==
    [][(LineStep /\ ~\E kw \in {kw_def, kw_defp, kw_defmacro, kw_defmacrop,
                                kw_defrecord, kw_defmodule} :
                        LeadingWord(line', kw))
        => (tags' = tags /\ module' = module)]_vars

C5_Witness ==
    /\ nread = 2
    /\ line = L_defx_foo
    /\ module = FooBar
    /\ enabled = AllEnabled
    /\ tags = <<Tag(FooBar, "module", "m", NoScope)>>

\* the tag is of a kind that is enabled
Keep(t) == \E k \in Kinds : enabled[k] /\ ElixirKinds[k].letter = t.kind

\* C6: the tags of a scan are the tags of the scan of the same lines with all
\* kinds enabled, without the tags of the disabled kinds, in the same order;
\* in particular with a single kind K disabled.
C6_DisabledKind ==
    /\ \A i \in 1..Len(tags) : Keep(tags[i])
    /\ tags = SelectSeq(tagsAll, Keep)
    /\ \A K \in Kinds :
        enabled = [AllEnabled EXCEPT ![K] = FALSE] =>
            /\ \A i \in 1..Len(tags) : tags[i].kind # ElixirKinds[K].letter
            /\ Len(tags) = Cardinality({i \in 1..Len(tagsAll) :
                                tagsAll[i].kind # ElixirKinds[K].letter})

C6_Witness ==
    /\ enabled = [AllEnabled EXCEPT ![K_FUNCTION] = FALSE]
    /\ tagsAll = <<Tag(bar, "function", "f", NoScope),
                   Tag(baz, "macro", "d", NoScope)>>
    /\ tags = <<Tag(baz, "macro", "d", NoScope)>>

\* C7: the module state is empty when the scan of a file starts, and in a
\* second file in which no defmodule line has set it, a line `def bar` gives
\* a tag bar without scope.
C7_FreshModule ==
    [][/\ (pc = "idle" /\ pc' = "scanning") => module' = <<>>
       /\ (LineStep /\ nfiles >= 2 /\ module = <<>> /\ enabled[K_FUNCTION]) =>
            \A n \in Names : LineForm(line', kw_def, n) =>
                tags' = Append(tags, Tag(n, "function", "f", NoScope))]_vars

C7_Witness ==
    /\ pc = "scanning"
    /\ nfiles = 2
    /\ nread = 2
    /\ line = L_def_bar
    /\ module = <<>>
    /\ tags = <<Tag(Foo, "module", "m", NoScope),
                Tag(bar, "function", "f", NoScope)>>

\* C8: parseIdentifier leaves in the buffer exactly the maximal run of
\* identifier characters that starts at the cursor, whatever the buffer held,
\* and returns the cursor advanced by the length of that run: never backwards,
\* never past the first character that is no identifier character; Foo.Bar is
\* one identifier.
C8_ParseIdentifier ==
    ret # 0 =>
        /\ ret >= cp
        /\ ret <= Len(line) + 1
        /\ identifier = SubSeq(line, cp, ret - 1)
        /\ \A i \in cp..(ret - 1) : IdentChar(line[i])
        /\ ~IdentChar(CharAt(line, ret))
        /\ ~IdentChar(CharAt(line, cp)) => (ret = cp /\ identifier = <<>>)
        /\ (line = FooBar /\ cp = 1) => identifier = FooBar

C8_Witness ==
    /\ line = L_defmodule_FooBar_do
    /\ cp = 13
    /\ ret = 20
    /\ identifier = FooBar

\* C9: a step appends at most one tag to the sink and changes nothing of what
\* the sink held, and only a step that processes a line appends.
C9_AppendOnly ==
    [][/\ Len(tags') \in {Len(tags), Len(tags) + 1}
       /\ SubSeq(tags', 1, Len(tags)) = tags
       /\ tags' # tags => LineStep]_vars

C9_Witness ==
    /\ nread = 2
    /\ line = L_defmacro_baz
    /\ tags = <<Tag(Bar, "module", "m", NoScope),
                Tag(baz, "macro", "d", NoScope)>>

\* C10: a step that processes a line changes the module state only when the
\* keyword of the line is defmodule, and then sets it to the identifier that
\* follows the keyword, also when kind module is disabled and also when no
\* identifier follows (the module state becomes empty).
C10_ModuleOverwrite ==
    [][LineStep =>
        /\ \A n \in Names \cup {<<>>} :
                LineForm(line', kw_defmodule, n) => module' = n
        /\ module' # module => LeadingWord(line', kw_defmodule)]_vars

C10_Witness ==
    /\ nread = 2
    /\ line = L_defmodule_comma
    /\ module = <<>>
    /\ ~enabled[K_MODULE]
    /\ enabled[K_FUNCTION]
    /\ tags = <<>>
    /\ tagsAll = <<Tag(Foo, "module", "m", NoScope)>>

====
